---- MODULE Spec2Model ----
(***************************************************************************)
(* Model of src/src/stream_parser.rs: the MIDI byte classifier             *)
(* (get_byte_type) and the incremental stream parser (StreamParser::new,   *)
(* StreamParser::push).  Bytes are integers 0..255, the message buffer is  *)
(* a function 0..N-1 -> byte (zero based, as in the source), and a         *)
(* returned slice &buffer[0..k] is the sequence of its first k bytes.      *)
(***************************************************************************)
EXTENDS Integers, Sequences, FiniteSets, TLC

(* ---------------------------- bounds ----------------------------------- *)

\* largest buffer capacity N a caller constructs a parser with
MaxN == 4
\* cap of the counter of messages returned in a row on data bytes alone
MaxRun == 3

\* The byte values the caller pushes: two data bytes, and at least one byte
\* of every class of the classification rule (both halves of each class the
\* source spells with a one-digit and with a two-digit pattern).
\*   0x2C 0x42 | 0x90 0xA0 0xF2 | 0xC0 0xD0 0xF1 | 0xF0 0xF7 | 0xF6 0xF8 |
\*   0xF4 0xF5
Bytes == {44, 66, 144, 160, 242, 192, 208, 241, 240, 247, 246, 248, 244, 245}

(* ------------------------ enum ByteType -------------------------------- *)

StatusByteOne(v) == [type |-> "StatusByteOne", v |-> v]
StatusByteTwo(v) == [type |-> "StatusByteTwo", v |-> v]
DataByte(v) == [type |-> "DataByte", v |-> v]
PassThroughByte(v) == [type |-> "PassThroughByte", v |-> v]
SysExStartByte(v) == [type |-> "SysExStartByte", v |-> v]
SysExStopByte(v) == [type |-> "SysExStopByte", v |-> v]
UndefinedByte == [type |-> "UndefinedByte", v |-> 0]

(* ------------------------ enum MidiState ------------------------------- *)

ExpectAnyByte == [tag |-> "ExpectAnyByte", s |-> 0, b |-> 0, n |-> 0]
ExpectOneDataByte(s) == [tag |-> "ExpectOneDataByte", s |-> s, b |-> 0, n |-> 0]
ExpectFirstDataByte(s) == [tag |-> "ExpectFirstDataByte", s |-> s, b |-> 0, n |-> 0]
ExpectSecondDataByte(s, b) == [tag |-> "ExpectSecondDataByte", s |-> s, b |-> b, n |-> 0]
ExpectOneRunningByte(s) == [tag |-> "ExpectOneRunningByte", s |-> s, b |-> 0, n |-> 0]
ExpectTwoRunningBytes(s) == [tag |-> "ExpectTwoRunningBytes", s |-> s, b |-> 0, n |-> 0]
ExpectSysExData(n) == [tag |-> "ExpectSysExData", s |-> 0, b |-> 0, n |-> n]

\* the value of the state field before StreamParser::new has run
NoParser == [tag |-> "NoParser", s |-> 0, b |-> 0, n |-> 0]

(* ------------------------ Option<&[u8]> -------------------------------- *)

None == [kind |-> "None", v |-> <<>>]
Some(m) == [kind |-> "Some", v |-> m]
\* a push that panicked returned nothing at all
Panicked == [kind |-> "Panicked", v |-> <<>>]

\* &self.message_buffer[0..k]
Slice(buf, k) == [i \in 1..k |-> buf[i - 1]]

(* ------------------------ get_byte_type -------------------------------- *)

\* byte & 0x80
And80(byte) == ((byte \div 128) % 2) * 128
\* byte & 0xf0
AndF0(byte) == ((byte \div 16) % 16) * 16

\* The patterns of the second match are the literals of the source:
\* 0xc = 12, 0xd0 = 208, 0x80 = 128, 0x90 = 144, 0xa = 10, 0xb = 11, 0xe = 14.
get_byte_type(byte) ==
    IF And80(byte) = 128
    THEN IF AndF0(byte) \in {12, 208} THEN StatusByteOne(byte)
         ELSE IF AndF0(byte) \in {128, 144, 10, 11, 14} THEN StatusByteTwo(byte)
         ELSE IF AndF0(byte) = 240
              THEN IF byte = 240 THEN SysExStartByte(byte)
                   ELSE IF byte = 241 THEN StatusByteOne(byte)
                   ELSE IF byte = 242 THEN StatusByteTwo(byte)
                   ELSE IF byte = 243 THEN StatusByteOne(byte)
                   ELSE IF byte = 247 THEN SysExStopByte(byte)
                   ELSE IF byte \in {246, 248, 249, 250, 251, 252, 253, 254, 255}
                        THEN PassThroughByte(byte)
                   ELSE UndefinedByte
         ELSE UndefinedByte
    ELSE DataByte(byte)

(* ------------------------ StreamParser::push --------------------------- *)

\* The outcome of one match arm: the new state, the new buffer, the value
\* returned, and whether an index was out of bounds (the arm panics before
\* it writes, and nothing of the parser is changed).
Outcome(st, buf, r) == [state |-> st, buf |-> buf, ret |-> r, panic |-> FALSE]
OutOfBounds(st, buf) == [state |-> st, buf |-> buf, ret |-> Panicked, panic |-> TRUE]

\* self.message_buffer[i] = v for each <<i, v>> of ws, in order; bounds checked
RECURSIVE Store(_, _)
Store(buf, ws) ==
    IF ws = <<>> THEN buf
    ELSE Store([buf EXCEPT ![ws[1][1]] = ws[1][2]], Tail(ws))

InBounds(buf, ws) == \A k \in 1..Len(ws) : ws[k][1] \in DOMAIN buf

\* (ExpectFirstDataByte(s), DataByte(b))
ArmFirstData(st, buf, b) ==
    Outcome(ExpectSecondDataByte(st.s, b), buf, None)

\* ArmSecondData forgetting the running status
ArmSecondDataNoRunning(st, buf, b2) ==
    LET ws == << <<0, st.s>>, <<1, st.b>>, <<2, b2>> >>
    IN  IF InBounds(buf, ws)
        THEN Outcome(ExpectAnyByte, Store(buf, ws), Some(Slice(Store(buf, ws), 3)))
        ELSE OutOfBounds(st, buf)

\* (ExpectSecondDataByte(s, b1), DataByte(b2))
ArmSecondData(st, buf, b2) ==
    LET ws == << <<0, st.s>>, <<1, st.b>>, <<2, b2>> >>
    IN  IF InBounds(buf, ws)
        THEN Outcome(ExpectTwoRunningBytes(st.s), Store(buf, ws),
                     Some(Slice(Store(buf, ws), 3)))
        ELSE OutOfBounds(st, buf)

\* (ExpectOneDataByte(s), DataByte(b))
ArmOneData(st, buf, b) ==
    LET ws == << <<0, st.s>>, <<1, b>> >>
    IN  IF InBounds(buf, ws)
        THEN Outcome(ExpectOneRunningByte(st.s), Store(buf, ws),
                     Some(Slice(Store(buf, ws), 2)))
        ELSE OutOfBounds(st, buf)

\* ArmOneRunning returning the message once and then leaving running status
ArmOneRunningOnce(st, buf, b) ==
    LET ws == << <<0, st.s>>, <<1, b>> >>
    IN  IF InBounds(buf, ws)
        THEN Outcome(ExpectAnyByte, Store(buf, ws), Some(Slice(Store(buf, ws), 2)))
        ELSE OutOfBounds(st, buf)

\* (ExpectOneRunningByte(s), DataByte(b)): the state is not assigned
ArmOneRunning(st, buf, b) ==
    LET ws == << <<0, st.s>>, <<1, b>> >>
    IN  IF InBounds(buf, ws)
        THEN Outcome(st, Store(buf, ws), Some(Slice(Store(buf, ws), 2)))
        ELSE OutOfBounds(st, buf)

\* (ExpectTwoRunningBytes(s), DataByte(b))
ArmTwoRunning(st, buf, b) ==
    Outcome(ExpectSecondDataByte(st.s, b), buf, None)

\* ArmSysExData leaving a cell out after the byte written last
ArmSysExDataSkip(st, buf, b) ==
    LET n == st.n + 2
        ws == << <<n, b>> >>
    IN  IF InBounds(buf, ws)
        THEN Outcome(ExpectSysExData(n), Store(buf, ws), None)
        ELSE OutOfBounds(st, buf)

\* (ExpectSysExData(n), DataByte(b))
ArmSysExData(st, buf, b) ==
    LET n == st.n + 1
        ws == << <<n, b>> >>
    IN  IF InBounds(buf, ws)
        THEN Outcome(ExpectSysExData(n), Store(buf, ws), None)
        ELSE OutOfBounds(st, buf)

\* ArmSysExStop returning the slice without the stop byte
ArmSysExStopShort(st, buf, b) ==
    LET n == st.n + 1
        ws == << <<n, b>> >>
    IN  IF InBounds(buf, ws)
        THEN Outcome(ExpectAnyByte, Store(buf, ws), Some(Slice(Store(buf, ws), n)))
        ELSE OutOfBounds(st, buf)

\* (ExpectSysExData(n), SysExStopByte(b))
ArmSysExStop(st, buf, b) ==
    LET n == st.n + 1
        ws == << <<n, b>> >>
    IN  IF InBounds(buf, ws)
        THEN Outcome(ExpectAnyByte, Store(buf, ws),
                     Some(Slice(Store(buf, ws), n + 1)))
        ELSE OutOfBounds(st, buf)

\* (_, StatusByteOne(s))
ArmStatusOne(st, buf, s) ==
    Outcome(ExpectOneDataByte(s), buf, None)

\* (_, StatusByteTwo(s))
ArmStatusTwo(st, buf, s) ==
    Outcome(ExpectFirstDataByte(s), buf, None)

\* ArmSysExStart counting the start byte
ArmSysExStartCounted(st, buf, s) ==
    LET ws == << <<0, s>> >>
    IN  IF InBounds(buf, ws)
        THEN Outcome(ExpectSysExData(1), Store(buf, ws), None)
        ELSE OutOfBounds(ExpectSysExData(1), buf)

\* (_, SysExStartByte(s)): the state is assigned before the write
ArmSysExStart(st, buf, s) ==
    LET ws == << <<0, s>> >>
    IN  IF InBounds(buf, ws)
        THEN Outcome(ExpectSysExData(0), Store(buf, ws), None)
        ELSE OutOfBounds(ExpectSysExData(0), buf)

\* ArmPassThrough ending the message in progress
ArmPassThroughReset(st, buf, b) ==
    LET ws == << <<0, b>> >>
    IN  IF InBounds(buf, ws)
        THEN Outcome(ExpectAnyByte, Store(buf, ws), Some(Slice(Store(buf, ws), 1)))
        ELSE OutOfBounds(st, buf)

\* (_, PassThroughByte(b))
ArmPassThrough(st, buf, b) ==
    LET ws == << <<0, b>> >>
    IN  IF InBounds(buf, ws)
        THEN Outcome(st, Store(buf, ws), Some(Slice(Store(buf, ws), 1)))
        ELSE OutOfBounds(st, buf)

\* ArmUndefined falling through to the reset of the last arm
ArmUndefinedReset(st, buf) ==
    Outcome(ExpectAnyByte, buf, None)

\* (_, UndefinedByte) => None
ArmUndefined(st, buf) ==
    Outcome(st, buf, None)

\* the last arm leaving the state as it is
ArmCatchAllKeep(st, buf) ==
    Outcome(st, buf, None)

\* _ => reset
ArmCatchAll(st, buf) ==
    Outcome(ExpectAnyByte, buf, None)

\* the patterns of match (&self.state, byte): the first arm that matches, in
\* source order
arm(st, bt) ==
    IF st.tag = "ExpectFirstDataByte" /\ bt.type = "DataByte" THEN "FirstData"
    ELSE IF st.tag = "ExpectSecondDataByte" /\ bt.type = "DataByte" THEN "SecondData"
    ELSE IF st.tag = "ExpectOneDataByte" /\ bt.type = "DataByte" THEN "OneData"
    ELSE IF st.tag = "ExpectOneRunningByte" /\ bt.type = "DataByte" THEN "OneRunning"
    ELSE IF st.tag = "ExpectTwoRunningBytes" /\ bt.type = "DataByte" THEN "TwoRunning"
    ELSE IF st.tag = "ExpectSysExData" /\ bt.type = "DataByte" THEN "SysExData"
    ELSE IF st.tag = "ExpectSysExData" /\ bt.type = "SysExStopByte" THEN "SysExStop"
    ELSE IF bt.type = "StatusByteOne" THEN "StatusOne"
    ELSE IF bt.type = "StatusByteTwo" THEN "StatusTwo"
    ELSE IF bt.type = "SysExStartByte" THEN "SysExStart"
    ELSE IF bt.type = "PassThroughByte" THEN "PassThrough"
    ELSE IF bt.type = "UndefinedByte" THEN "Undefined"
    ELSE "CatchAll"

\* push: classify the byte, then run the body of the arm that matches
push(st, buf, byte) ==
    LET bt == get_byte_type(byte)
        a == arm(st, bt)
    IN  CASE a = "FirstData" -> ArmFirstData(st, buf, bt.v)
          [] a = "SecondData" -> ArmSecondData(st, buf, bt.v)
          [] a = "OneData" -> ArmOneData(st, buf, bt.v)
          [] a = "OneRunning" -> ArmOneRunning(st, buf, bt.v)
          [] a = "TwoRunning" -> ArmTwoRunning(st, buf, bt.v)
          [] a = "SysExData" -> ArmSysExData(st, buf, bt.v)
          [] a = "SysExStop" -> ArmSysExStop(st, buf, bt.v)
          [] a = "StatusOne" -> ArmStatusOne(st, buf, bt.v)
          [] a = "StatusTwo" -> ArmStatusTwo(st, buf, bt.v)
          [] a = "SysExStart" -> ArmSysExStart(st, buf, bt.v)
          [] a = "PassThrough" -> ArmPassThrough(st, buf, bt.v)
          [] a = "Undefined" -> ArmUndefined(st, buf)
          [] OTHER -> ArmCatchAll(st, buf)

\* the buffer indices push assigns, in order, for the arm that matches
writes(st, byte) ==
    LET a == arm(st, get_byte_type(byte))
    IN  CASE a = "SecondData" -> <<0, 1, 2>>
          [] a \in {"OneData", "OneRunning"} -> <<0, 1>>
          [] a \in {"SysExData", "SysExStop"} -> <<st.n + 1>>
          [] a \in {"SysExStart", "PassThrough"} -> <<0>>
          [] OTHER -> <<>>

(* ------------------------ StreamParser::new ---------------------------- *)

\* the capacity check off by one
NewPanicsBelowTwo(n) == n < 2

\* if N < 3 { panic!(...) }
NewPanics(n) == n < 3

\* the state field of the parser new returns
NewState == ExpectAnyByte

(* ------------------------ the caller ----------------------------------- *)

VARIABLES
    pc,              \* "start", "ready", "new_panic" (new panicked), "push_panic"
    N,               \* capacity of the caller's buffer: the const generic N
    state,           \* StreamParser.state
    message_buffer,  \* StreamParser.message_buffer, 0..N-1 -> byte
    arg,             \* the byte the last push was called with
    ret,             \* the value the last push returned
    run,             \* the message last returned and the data bytes pushed since
    runs,            \* messages returned in a row on data bytes alone, capped
    frame,           \* the well-formed message the last pushes are a prefix of
    strayAt,         \* pushes made since the last stray data byte
    ref_state,       \* a second parser that is pushed the same bytes except the
    ref_buffer,      \*   pass-through bytes: its state, its buffer and the value
    ref_ret,         \*   its last push returned
    cbyte,           \* the byte get_byte_type was last called with
    crole,           \* the ByteType it returned
    sxLen,           \* bytes of the system-exclusive message the stream is in, or 0
    fits,            \* no system-exclusive message of the stream outgrew N bytes
    written,         \* bytes of the system-exclusive message in progress written
    before,          \* StreamParser.state before the last push
    lastStatus       \* the status byte pushed last, or NoByte

parser == <<pc, N, state, message_buffer, arg, ret>>
running == <<run, runs>>
framing == <<frame, strayAt>>
reference == <<ref_state, ref_buffer, ref_ret>>
classified == <<cbyte, crole>>
bounding == <<sxLen, fits, written>>
stepping == <<before, lastStatus>>
vars == <<parser, running, framing, reference, classified, bounding, stepping>>

\* the byte classes as the MIDI 1.0 encoding defines them
DataBytes == 0..127
TwoDataStatusBytes == {s \in 128..255 : s \div 16 \in {8, 9, 10, 11, 14}} \cup {242}
OneDataStatusBytes == {s \in 128..255 : s \div 16 \in {12, 13}} \cup {241, 243}
PassThroughBytes == {246} \cup (248..255)
UndefinedBytes == {244, 245}
SysExStart == 240
SysExStop == 247

\* strayAt when no stray data byte is recent enough to matter
NoStray == MaxN + 1

Min(a, b) == IF a < b THEN a ELSE b

\* arg before the first push
NoByte == 0 - 1

NoRun == [msg |-> <<>>, data |-> <<>>]

\* r is a status byte with one or two data bytes: 2 or 3 bytes, the last one
\* a data byte (a system-exclusive message ends with 0xF7)
IsChannelShaped(r) ==
    /\ r.kind = "Some"
    /\ Len(r.v) \in {2, 3}
    /\ r.v[Len(r.v)] \in DataBytes

\* A returned 2- or 3-byte message starts a run; the data bytes pushed after
\* it extend the run up to the length of the next message; any other byte,
\* and a data byte beyond that length, ends it.
RunNext(q, byte, r) ==
    IF IsChannelShaped(r) THEN [msg |-> r.v, data |-> <<>>]
    ELSE IF /\ q.msg # <<>>
            /\ byte \in DataBytes
            /\ Len(q.data) + 2 < Len(q.msg)
         THEN [q EXCEPT !.data = Append(@, byte)]
    ELSE NoRun

RunsNext(k, q, byte, r) ==
    IF IsChannelShaped(r)
    THEN IF q.msg # <<>> /\ byte \in DataBytes THEN Min(k + 1, MaxRun) ELSE 1
    ELSE IF byte \in DataBytes THEN k
    ELSE 0

\* q is a whole message: status and its data bytes, or 0xF0 data* 0xF7
Complete(q) ==
    /\ q # <<>>
    /\ \/ q[1] \in OneDataStatusBytes /\ Len(q) = 2
       \/ q[1] \in TwoDataStatusBytes /\ Len(q) = 3
       \/ q[1] = SysExStart /\ q[Len(q)] = SysExStop

\* may byte follow the unfinished message q
Continues(q, byte) ==
    /\ q # <<>>
    /\ ~Complete(q)
    /\ \/ byte \in DataBytes
       \/ q[1] = SysExStart /\ byte = SysExStop

FrameNext(q, byte) ==
    IF byte \in OneDataStatusBytes \cup TwoDataStatusBytes \cup {SysExStart}
    THEN <<byte>>
    ELSE IF Continues(q, byte) THEN Append(q, byte)
    ELSE <<>>

\* a stray byte is a data byte pushed in ExpectAnyByte that belongs to no
\* message in progress
StrayNext(k, pre, q, byte) ==
    IF pre.tag = "ExpectAnyByte" /\ byte \in DataBytes /\ ~Continues(q, byte)
    THEN 0
    ELSE Min(k + 1, NoStray)

\* The system-exclusive message of the stream, by the MIDI 1.0 encoding: it
\* starts at 0xF0 and grows by the data bytes; pass-through and undefined
\* bytes are not part of it and do not end it; 0xF7 and every other status
\* byte end it.
SxLenNext(k, byte) ==
    IF byte = SysExStart THEN 1
    ELSE IF k = 0 THEN 0
    ELSE IF byte \in DataBytes THEN Min(k + 1, MaxN + 1)
    ELSE IF byte \in PassThroughBytes \cup UndefinedBytes THEN k
    ELSE 0

\* byte makes the message of k bytes longer than n bytes
Outgrows(k, byte, n) ==
    k > 0 /\ byte \in DataBytes \cup {SysExStop} /\ k + 1 > n

\* bytes of the message in progress the parser has put into the buffer
WrittenNext(k, post, byte, r) ==
    IF post.tag # "ExpectSysExData" THEN 0
    ELSE IF byte = SysExStart THEN 1
    ELSE IF byte \in DataBytes /\ r # Panicked THEN k + 1
    ELSE k

\* a status byte: bit 7 set, and not a pass-through byte, 0xF4, 0xF5 or 0xF7
IsStatus(byte) ==
    /\ byte \in 128..255
    /\ byte \notin PassThroughBytes \cup UndefinedBytes \cup {SysExStop}

LastStatusNext(s, byte) == IF IsStatus(byte) THEN byte ELSE s

Init ==
    /\ pc = "start"
    /\ N \in 0..MaxN
    /\ state = NoParser
    /\ message_buffer = [i \in 0..(N - 1) |-> 0]
    /\ arg = NoByte
    /\ ret = None
    /\ run = NoRun
    /\ runs = 0
    /\ frame = <<>>
    /\ strayAt = NoStray
    /\ ref_state = NoParser
    /\ ref_buffer = [i \in 0..(N - 1) |-> 0]
    /\ ref_ret = None
    /\ cbyte = NoByte
    /\ crole = UndefinedByte
    /\ sxLen = 0
    /\ fits = TRUE
    /\ written = 0
    /\ before = NoParser
    /\ lastStatus = NoByte

\* StreamParser::new(&mut message_buffer)
New ==
    /\ pc = "start"
    /\ IF NewPanics(N)
       THEN /\ pc' = "new_panic"
            /\ UNCHANGED <<state, ref_state>>
       ELSE /\ pc' = "ready"
            /\ state' = NewState
            /\ ref_state' = NewState
    /\ UNCHANGED <<N, message_buffer, arg, ret, running, framing, ref_buffer, ref_ret,
                   classified, bounding, stepping>>

\* midi.push(byte): a panic leaves the parser as it was
Call(byte) ==
    LET res == push(state, message_buffer, byte)
    IN  /\ pc = "ready"
        /\ pc' = IF res.panic THEN "push_panic" ELSE "ready"
        /\ state' = res.state
        /\ message_buffer' = res.buf
        /\ arg' = byte
        /\ ret' = res.ret
        /\ N' = N

\* a push, with the running status remembered
Push ==
    \E byte \in Bytes :
        /\ Call(byte)
        /\ run' = RunNext(run, byte, ret')
        /\ runs' = RunsNext(runs, run, byte, ret')
        /\ UNCHANGED <<framing, reference, classified, bounding, stepping>>

\* a push, with the message in progress remembered
PushFramed ==
    \E byte \in Bytes :
        /\ Call(byte)
        /\ frame' = FrameNext(frame, byte)
        /\ UNCHANGED <<strayAt, running, reference, classified, bounding, stepping>>

\* a push, with the message in progress and the last stray data byte remembered
PushStray ==
    \E byte \in Bytes :
        /\ Call(byte)
        /\ frame' = FrameNext(frame, byte)
        /\ strayAt' = StrayNext(strayAt, state, frame, byte)
        /\ UNCHANGED <<running, reference, classified, bounding, stepping>>

\* a push, with the length of the system-exclusive message remembered
PushBounded ==
    \E byte \in Bytes :
        /\ Call(byte)
        /\ sxLen' = SxLenNext(sxLen, byte)
        /\ fits' = (fits /\ ~Outgrows(sxLen, byte, N))
        /\ written' = WrittenNext(written, state', byte, ret')
        /\ UNCHANGED <<running, framing, reference, classified, stepping>>

\* a push, with the state before it and the last status byte remembered
PushStep ==
    \E byte \in Bytes :
        /\ Call(byte)
        /\ before' = state
        /\ lastStatus' = LastStatusNext(lastStatus, byte)
        /\ UNCHANGED <<running, framing, reference, classified, bounding>>

\* a push, with the reference parser pushed every byte but the pass-through bytes
PushBoth ==
    \E byte \in Bytes :
        LET ref == push(ref_state, ref_buffer, byte)
        IN  /\ Call(byte)
            /\ IF byte \in PassThroughBytes
               THEN UNCHANGED reference
               ELSE /\ ref_state' = ref.state
                    /\ ref_buffer' = ref.buf
                    /\ ref_ret' = ref.ret
            /\ UNCHANGED <<running, framing, classified, bounding, stepping>>

\* Self::get_byte_type(byte), for each of the 256 values of a u8
Classify ==
    \E byte \in 0..255 :
        /\ cbyte' = byte
        /\ crole' = get_byte_type(byte)
        /\ UNCHANGED <<parser, running, framing, reference, bounding, stepping>>

Next == New \/ Push
Spec == Init /\ [][Next]_vars

NextFramed == New \/ PushFramed
SpecFramed == Init /\ [][NextFramed]_vars

NextStray == New \/ PushStray
SpecStray == Init /\ [][NextStray]_vars

NextBoth == New \/ PushBoth
SpecBoth == Init /\ [][NextBoth]_vars

NextBounded == New \/ PushBounded
SpecBounded == Init /\ [][NextBounded]_vars

NextStep == New \/ PushStep
SpecStep == Init /\ [][NextStep]_vars

SpecClassify == Init /\ [][Classify]_vars

TypeOK ==
    /\ pc \in {"start", "ready", "new_panic", "push_panic"}
    /\ N \in 0..MaxN
    /\ DOMAIN message_buffer = 0..(N - 1)
    /\ Len(frame) <= N + 1
    /\ strayAt \in 0..NoStray
    /\ runs \in 0..MaxRun

(* ------------------------ the claims ----------------------------------- *)

\* what the pushes of the message in progress return: None for every byte
\* but the last, the whole message for the last
ReturnsFrame ==
    IF Complete(frame) THEN ret = Some(frame) ELSE ret = None

\* C1: the pushes s, d1, d2 with s a two-data-byte status (high nibble 0x8,
\* 0x9, 0xA, 0xB or 0xE, or 0xF2) return None, None, Some([s, d1, d2]), from
\* any reachable state.  Checked under SpecFramed.
C1_TwoDataByteMessage ==
    (pc = "ready" /\ frame # <<>> /\ frame[1] \in TwoDataStatusBytes)
        => ReturnsFrame

\* C2: the pushes s, d with s a one-data-byte status (high nibble 0xC or 0xD,
\* or 0xF1, 0xF3) return None, Some([s, d]), from any reachable state.
\* Checked under SpecFramed.
C2_OneDataByteMessage ==
    (pc = "ready" /\ frame # <<>> /\ frame[1] \in OneDataStatusBytes)
        => ReturnsFrame

\* C3: pass-through bytes inserted anywhere in a message leave the message
\* finally emitted equal to the one emitted without them: every push of a
\* byte that is not a pass-through byte returns what the reference parser,
\* which was never pushed the pass-through bytes, returns.  Checked under
\* SpecBoth.
C3_PassThroughTransparent ==
    (pc = "ready" /\ arg # NoByte /\ arg \notin PassThroughBytes)
        => ret = ref_ret

\* C4: push(p) of a pass-through byte p returns Some([p]) on that very push
\* and leaves the decode state as it was, in every reachable state.
C4_PassThroughFrame ==
    [][(pc = "ready" /\ arg' \in PassThroughBytes)
          => (ret' = Some(<<arg'>>) /\ state' = state)]_vars

C4_Witness ==
    /\ arg \in PassThroughBytes
    /\ ret = Some(<<arg>>)
    /\ state.tag = "ExpectSecondDataByte"

\* C5: once a two-data-byte message with status s has been returned, of the
\* data bytes pushed next the first returns None and the second returns
\* Some([s, d1, d2]); that message starts the next pair, so this holds for
\* any number of pairs in a row.
C5_RunningTwo ==
    [][(pc = "ready" /\ Len(run.msg) = 3 /\ arg' \in DataBytes)
          => IF run.data = <<>>
             THEN ret' = None
             ELSE ret' = Some(<<run.msg[1], run.data[1], arg'>>)]_vars

C5_Witness ==
    /\ runs >= 2
    /\ Len(run.msg) = 3
    /\ run.data = <<>>
    /\ ret = Some(run.msg)
    /\ run.msg[2] # run.msg[3]

\* C6: once a one-data-byte message with status s has been returned, every
\* data byte d pushed next returns Some([s, d]) at once and the state stays
\* ExpectOneRunningByte(s), for any number of data bytes in a row.
C6_RunningOne ==
    [][(pc = "ready" /\ Len(run.msg) = 2 /\ arg' \in DataBytes)
          => (/\ ret' = Some(<<run.msg[1], arg'>>)
              /\ state' = ExpectOneRunningByte(run.msg[1]))]_vars

C6_Witness ==
    /\ runs >= 2
    /\ Len(run.msg) = 2
    /\ ret = Some(run.msg)
    /\ state = ExpectOneRunningByte(run.msg[1])

\* C7: the pushes 0xF0, d1..dk, 0xF7 of at most N bytes in all, from any
\* reachable state, return None except the last, which returns the whole
\* sequence, and the state is then ExpectAnyByte.  Checked under SpecFramed.
C7_SysExFraming ==
    (frame # <<>> /\ frame[1] = SysExStart /\ Len(frame) <= N)
        => /\ pc = "ready"
           /\ ReturnsFrame
           /\ Complete(frame) => state = ExpectAnyByte

C7_Witness ==
    /\ Complete(frame)
    /\ frame[1] = SysExStart
    /\ Len(frame) = N
    /\ ret = Some(frame)
    /\ frame[2] # frame[3]

\* C8: push of 0xF4 or 0xF5 returns None and leaves the decode state (and
\* the bytes gathered in the buffer) as they were, in every reachable state.
C8_UndefinedFrame ==
    [][(pc = "ready" /\ arg' \in UndefinedBytes)
          => (/\ ret' = None
              /\ state' = state
              /\ message_buffer' = message_buffer)]_vars

C8_Witness ==
    /\ arg \in UndefinedBytes
    /\ ret = None
    /\ state.tag = "ExpectSecondDataByte"

\* C9: a data byte pushed in ExpectAnyByte returns None and leaves
\* ExpectAnyByte, and the well-formed message pushed right after it (a status
\* byte and its one or two data bytes, or 0xF0 .. 0xF7, fitting the buffer)
\* is returned whole on its last byte.  Checked under SpecStray.
C9_Resynchronisation ==
    pc = "ready" =>
        /\ strayAt = 0 => (ret = None /\ state = ExpectAnyByte)
        /\ (Complete(frame) /\ strayAt = Len(frame) /\ Len(frame) <= N)
              => ret = Some(frame)

\* C10: new panics when N is 0, 1 or 2 and no parser is produced; for every
\* N >= 3 it returns a parser in ExpectAnyByte.
C10_Construction ==
    [][pc = "start"
          => IF N < 3
             THEN pc' = "new_panic" /\ state' = NoParser
             ELSE pc' = "ready" /\ state' = ExpectAnyByte]_vars

C10_Witness ==
    /\ pc = "new_panic"
    /\ N = 2
    /\ state = NoParser

\* the role the classification rule of the MIDI 1.0 encoding gives a byte
RuleRole(byte) ==
    IF byte \in DataBytes THEN DataByte(byte)
    ELSE IF byte \in OneDataStatusBytes THEN StatusByteOne(byte)
    ELSE IF byte \in TwoDataStatusBytes THEN StatusByteTwo(byte)
    ELSE IF byte = SysExStart THEN SysExStartByte(byte)
    ELSE IF byte = SysExStop THEN SysExStopByte(byte)
    ELSE IF byte \in PassThroughBytes THEN PassThroughByte(byte)
    ELSE UndefinedByte

\* C11: on every one of the 256 byte values the classifier returns the role
\* of the classification rule, carrying the raw byte; Undefined for 0xF4 and
\* 0xF5 and no others.  Checked under SpecClassify.
C11_ClassifierRule ==
    cbyte # NoByte =>
        /\ crole = RuleRole(cbyte)
        /\ crole = UndefinedByte <=> cbyte \in UndefinedBytes

\* the seven variants of MidiState
SevenVariants ==
    {"ExpectAnyByte", "ExpectOneDataByte", "ExpectFirstDataByte",
     "ExpectSecondDataByte", "ExpectOneRunningByte", "ExpectTwoRunningBytes",
     "ExpectSysExData"}

\* push(byte) completes and leaves one of the seven variants
Completes(byte) ==
    LET res == push(state, message_buffer, byte)
    IN  ~res.panic /\ res.state.tag \in SevenVariants

\* the buffer is full of the system-exclusive message in progress and byte
\* is one more byte of it
Overflows(byte) ==
    /\ state.tag = "ExpectSysExData"
    /\ state.n + 1 >= N
    /\ byte \in DataBytes \cup {SysExStop}

\* C12 as stated: in every reachable state of a parser of any capacity
\* N >= 3, push of every byte 0x00..0xFF completes without fault and leaves
\* one of the seven variants.
C12_PushTotal ==
    pc = "ready" => \A byte \in 0..255 : Completes(byte)

\* C12 as amended: the same, except in ExpectSysExData(n) with n + 1 >= N for
\* a data byte or 0xF7, where push panics on the index out of bounds.
C12_PushTotalUnlessFull ==
    pc = "ready" => \A byte \in 0..255 : ~Overflows(byte) => Completes(byte)

C12_Witness ==
    /\ pc = "ready"
    /\ state.tag = "ExpectSysExData"
    /\ state.n = N - 1
    /\ arg \in DataBytes

\* every index push(byte) writes is n + 1 in the two arms of
\* ExpectSysExData(n) and at most 2 in the others
WritesWhereSaid(byte) ==
    LET ws == writes(state, byte)
        a == arm(state, get_byte_type(byte))
    IN  \A k \in 1..Len(ws) :
            IF a \in {"SysExData", "SysExStop"}
            THEN state.tag = "ExpectSysExData" /\ ws[k] = state.n + 1
            ELSE ws[k] <= 2

\* C13: every write is at an index <= 2 outside system-exclusive mode and at
\* n + 1 in ExpectSysExData(n); a push panics exactly when the state is
\* ExpectSysExData(n) with n + 1 >= N and the byte is a data byte or 0xF7;
\* and while no system-exclusive message of the stream is longer than N
\* bytes, n <= N - 1 and no push panics.  Checked under SpecBounded.
C13_BufferBounds ==
    /\ pc = "ready" =>
          \A byte \in 0..255 :
              /\ WritesWhereSaid(byte)
              /\ push(state, message_buffer, byte).panic <=> Overflows(byte)
    /\ fits =>
          /\ pc # "push_panic"
          /\ state.tag = "ExpectSysExData" => state.n <= N - 1

\* C14 as stated: in every reachable ExpectSysExData(n), n is the number of
\* bytes of the system-exclusive message in progress written into the
\* buffer so far, the start byte 0xF0 included.  Checked under SpecBounded.
C14_CountWithStart ==
    (pc = "ready" /\ state.tag = "ExpectSysExData") => state.n = written

\* C14 as amended: n is that number less one, the number of data bytes
\* written after the start byte (the index of the byte written last).
C14_CountWithoutStart ==
    (pc = "ready" /\ state.tag = "ExpectSysExData") => state.n = written - 1

C14_Witness ==
    /\ pc = "ready"
    /\ state.tag = "ExpectSysExData"
    /\ written = N
    /\ state.n = N - 1
    /\ message_buffer[state.n] \in DataBytes

\* the pairs the claim says no arm but the last one handles
Unhandled(st, bt) ==
    \/ bt.type = "DataByte" /\ st.tag = "ExpectAnyByte"
    \/ bt.type = "SysExStopByte" /\ st.tag # "ExpectSysExData"

RunningTags == {"ExpectOneRunningByte", "ExpectTwoRunningBytes"}

\* C15: the pairs of a state and a byte role that only the last arm handles
\* are a data byte in ExpectAnyByte and 0xF7 in a state other than
\* ExpectSysExData; for them push returns None and leaves ExpectAnyByte.  So
\* 0xF7 in a running-status state ends the running status, and the data
\* bytes after it return None.  Checked under SpecStep.
C15_CatchAllReset ==
    pc = "ready" =>
        /\ \A byte \in 0..255 :
              LET bt == get_byte_type(byte)
                  res == push(state, message_buffer, byte)
              IN  /\ arm(state, bt) = "CatchAll" <=> Unhandled(state, bt)
                  /\ Unhandled(state, bt) =>
                        (res.ret = None /\ res.state = ExpectAnyByte)
        /\ (before.tag \in RunningTags /\ arg = SysExStop)
              => (ret = None /\ state = ExpectAnyByte)
        /\ (before = ExpectAnyByte /\ arg \in DataBytes)
              => (ret = None /\ state = ExpectAnyByte)

C15_Witness ==
    /\ pc = "ready"
    /\ before.tag = "ExpectTwoRunningBytes"
    /\ arg = SysExStop
    /\ ret = None
    /\ state = ExpectAnyByte

\* the bytes the claim says do not fit: 0xF4 and 0xF5 in any state, and a
\* data byte with no status before it
Misfit == arg \in UndefinedBytes \/ (arg \in DataBytes /\ before = ExpectAnyByte)

\* C16 as stated: a byte that does not fit returns None and leaves the
\* parser in ExpectAnyByte.  Checked under SpecStep.
C16_MisfitResets ==
    (pc = "ready" /\ Misfit) => (ret = None /\ state = ExpectAnyByte)

\* C16 as amended: a byte that does not fit returns None; 0xF4 and 0xF5
\* leave the state as it was, and a data byte in ExpectAnyByte leaves
\* ExpectAnyByte.
C16_MisfitDropped ==
    (pc = "ready" /\ Misfit) =>
        /\ ret = None
        /\ state = IF arg \in UndefinedBytes THEN before ELSE ExpectAnyByte

C16_Witness ==
    /\ pc = "ready"
    /\ arg \in UndefinedBytes
    /\ before.tag = "ExpectSecondDataByte"
    /\ state = before
    /\ ret = None

\* C17: in ExpectSysExData(n) a one-data-byte status, a two-data-byte status
\* or 0xF0 returns None and leaves the state that byte leaves from any state;
\* the bytes gathered are not returned later: 0xF7 outside ExpectSysExData
\* returns None.  Checked under SpecStep.
C17_AbandonsSysEx ==
    pc = "ready" =>
        /\ (before.tag = "ExpectSysExData" /\ arg \in OneDataStatusBytes)
              => (ret = None /\ state = ExpectOneDataByte(arg))
        /\ (before.tag = "ExpectSysExData" /\ arg \in TwoDataStatusBytes)
              => (ret = None /\ state = ExpectFirstDataByte(arg))
        /\ (before.tag = "ExpectSysExData" /\ arg = SysExStart)
              => (ret = None /\ state = ExpectSysExData(0))
        /\ (before.tag \in SevenVariants \ {"ExpectSysExData"} /\ arg = SysExStop)
              => ret = None

\* C18: the first byte of every 2- or 3-byte message returned is the status
\* byte pushed last.  Checked under SpecStep.
C18_StatusAttribution ==
    (pc = "ready" /\ ret.kind = "Some" /\ Len(ret.v) \in {2, 3})
        => ret.v[1] = lastStatus

\* the four shapes of a message
WellFormed(m) ==
    \/ Len(m) = 1 /\ m[1] \in PassThroughBytes
    \/ Len(m) = 2 /\ m[1] \in OneDataStatusBytes /\ m[2] \in DataBytes
    \/ /\ Len(m) = 3
       /\ m[1] \in TwoDataStatusBytes
       /\ m[2] \in DataBytes
       /\ m[3] \in DataBytes
    \/ /\ Len(m) >= 2
       /\ m[1] = SysExStart
       /\ m[Len(m)] = SysExStop
       /\ \A k \in 2..(Len(m) - 1) : m[k] \in DataBytes

\* C19: while no push has overflowed the buffer, every message returned has
\* one of the four shapes and is at most N bytes long.  Checked under
\* SpecStep.
C19_WellFormedOutput ==
    (pc = "ready" /\ ret.kind = "Some")
        => (WellFormed(ret.v) /\ Len(ret.v) <= N)

====
